---- MODULE Spec2Model ----
(***************************************************************************)
(* State-machine model of the Email plugin (src/src/index.ts):             *)
(* EmailPlugin.execute, createClient, formEmailJson, parseEmailAddresses.  *)
(*                                                                         *)
(* JavaScript values are tagged records.  A JavaScript string is a         *)
(* sequence of tokens (a token is one or more characters); address lists   *)
(* use one token per character, so that split/trim work on characters.     *)
(***************************************************************************)
EXTENDS Integers, Sequences, FiniteSets, TLC

\* ------------------------------------------------------------------ bounds
\* longest address-list string given to parseEmailAddresses
MaxLen == 5
\* longest attachment descriptor list of an action configuration
MaxAttachments == 2
\* longest staged-file list handed to execute
MaxFiles == 2

\* ------------------------------------------------------- JavaScript values
Undefined == [t |-> "undefined"]

Str(s) == [t |-> "string", s |-> s]

Arr(items) == [t |-> "array", items |-> items]

Num(n) == [t |-> "number", n |-> n]

\* !v
Falsy(v) ==
  \/ v.t = "undefined"
  \/ v.t = "string" /\ v.s = <<>>
  \/ v.t = "number" /\ v.n = 0

\* lodash isEmpty: true of undefined/null, of a string or array of length 0,
\* and of every number
isEmpty(v) ==
  CASE v.t = "undefined" -> TRUE
    [] v.t = "string" -> Len(v.s) = 0
    [] v.t = "array" -> Len(v.items) = 0
    [] OTHER -> TRUE

\* a ?? b
Coalesce(a, b) == IF a.t = "undefined" THEN b ELSE a

\* s.startsWith(p)
startsWith(s, p) == Len(p) <= Len(s) /\ SubSeq(s, 1, Len(p)) = p

\* whether sequence part occurs contiguously in sequence whole
Contains(whole, part) ==
  \E k \in 0..(Len(whole) - Len(part)) : SubSeq(whole, k + 1, k + Len(part)) = part

\* all sequences over S of length at most n
SeqsUpTo(S, n) == UNION {[1..k -> S] : k \in 0..n}

\* ---------------------------------------------------- parseEmailAddresses
Whitespace == {" ", "\t"}

\* String.prototype.split(','): the pieces between the commas, empty ones kept
RECURSIVE split(_)
split(s) ==
  IF \A k \in 1..Len(s) : s[k] # ","
    THEN <<s>>
    ELSE LET c == CHOOSE k \in 1..Len(s) : s[k] = "," /\ \A j \in 1..(k - 1) : s[j] # ","
         IN  <<SubSeq(s, 1, c - 1)>> \o split(SubSeq(s, c + 1, Len(s)))

\* String.prototype.trim with the trailing whitespace left in place
RECURSIVE trimStart(_)
trimStart(s) ==
  IF s # <<>> /\ Head(s) \in Whitespace THEN trimStart(Tail(s)) ELSE s

RECURSIVE trimEnd(_)
trimEnd(s) ==
  IF s # <<>> /\ s[Len(s)] \in Whitespace THEN trimEnd(SubSeq(s, 1, Len(s) - 1)) ELSE s

\* String.prototype.trim
trim(s) == trimEnd(trimStart(s))

\* .map((item) => item.trim())
mapTrim(pieces) == [k \in 1..Len(pieces) |-> trim(pieces[k])]

\* .filter((item) => !isEmpty(item))
filterNonEmpty(pieces) == SelectSeq(pieces, LAMBDA p : ~isEmpty(Str(p)))

\* a pipeline that forgets the filter step
parseEmailAddressesNoFilter(emailsString) ==
  IF isEmpty(emailsString) THEN <<>> ELSE mapTrim(split(emailsString.s))

parseEmailAddresses(emailsString) ==
  IF isEmpty(emailsString)
    THEN <<>>
    ELSE filterNonEmpty(mapTrim(split(emailsString.s)))

\* ------------------------------------------------------------------ base64
\* Buffer.toString('base64'): 3 bytes -> 4 sextets, '=' padding written 64.
RECURSIVE base64(_)
base64(bytes) ==
  CASE Len(bytes) = 0 -> <<>>
    [] Len(bytes) = 1 ->
         LET n == bytes[1] * 65536
         IN  <<n \div 262144, (n \div 4096) % 64, 64, 64>>
    [] Len(bytes) = 2 ->
         LET n == bytes[1] * 65536 + bytes[2] * 256
         IN  <<n \div 262144, (n \div 4096) % 64, (n \div 64) % 64, 64>>
    [] OTHER ->
         LET n == bytes[1] * 65536 + bytes[2] * 256 + bytes[3]
         IN  <<n \div 262144, (n \div 4096) % 64, (n \div 64) % 64, n % 64>>
               \o base64(SubSeq(bytes, 4, Len(bytes)))

\* ------------------------------------------------------------------ errors
NoError == [name |-> "none", message |-> <<>>]

IntegrationError(message) == [name |-> "IntegrationError", message |-> message]

NotFoundError(message) == [name |-> "NotFoundError", message |-> message]

\* the error the runtime raises for (undefined).find(...)
TypeError(message) == [name |-> "TypeError", message |-> message]

\* `${err}`: Error.prototype.toString
errToString(err) == <<err.name, ": ">> \o err.message

\* ---------------------------------------------------------- the field schema
\* Object.values(EmailActionFieldsMap): the fields in declaration order, with
\* rules?.[0]?.required written as required
EmailActionFieldsMap ==
  << [name |-> "emailFrom", label |-> <<"From">>, required |-> TRUE],
     [name |-> "emailTo", label |-> <<"To">>, required |-> TRUE],
     [name |-> "emailCc", label |-> <<"Cc">>, required |-> FALSE],
     [name |-> "emailBcc", label |-> <<"Bcc">>, required |-> FALSE],
     [name |-> "emailSubject", label |-> <<"Subject">>, required |-> TRUE],
     [name |-> "emailBody", label |-> <<"Body">>, required |-> TRUE],
     [name |-> "emailAttachments", label |-> <<"File Attachments">>, required |-> FALSE] >>

\* the indices of the required fields that the configuration leaves empty
MissingRequired(actionCfg) ==
  {k \in 1..Len(EmailActionFieldsMap) :
     EmailActionFieldsMap[k].required /\ Falsy(actionCfg[EmailActionFieldsMap[k].name])}

\* the least element of a non-empty set of numbers
Least(S) == CHOOSE k \in S : \A j \in S : k <= j

\* a loop that keeps going and reports the last empty required field
validateLast(actionCfg) ==
  IF MissingRequired(actionCfg) = {}
    THEN NoError
    ELSE LET k == CHOOSE a \in MissingRequired(actionCfg) : \A b \in MissingRequired(actionCfg) : b <= a
         IN  IntegrationError(EmailActionFieldsMap[k].label \o <<" not specified">>)

\* execute, lines 32-38: the first empty required field throws
validate(actionCfg) ==
  IF MissingRequired(actionCfg) = {}
    THEN NoError
    ELSE IntegrationError(EmailActionFieldsMap[Least(MissingRequired(actionCfg))].label
                            \o <<" not specified">>)

\* ------------------------------------------------- attachment descriptors
Descriptor(id, name, contents, type) ==
  [t |-> "object", superblocksId |-> id, name |-> name, contents |-> contents, type |-> type]

FileRef1 == Descriptor(Str(<<"id1">>), Str(<<"a.txt">>), Undefined, Str(<<"text/plain">>))

FileRef2 == Descriptor(Str(<<"id2">>), Str(<<"b.png">>), Undefined, Str(<<"image/png">>))

\* { name, contents, type } with contents "hi"
Inline1 == Descriptor(Undefined, Str(<<"c.csv">>), Str(<<104, 105>>), Str(<<"text/csv">>))

\* an object that is neither shape
OtherObject == Descriptor(Undefined, Undefined, Undefined, Undefined)

Descriptors == {FileRef1, FileRef2, Inline1, OtherObject}

isReadableFile(file) ==
  file.t = "object" /\ file.superblocksId.t = "string" /\ file.name.t = "string"

isReadableFileConstructor(file) ==
  file.t = "object" /\ file.name.t = "string" /\ file.contents.t = "string" /\ file.type.t = "string"

\* ------------------------------------------------------------ staged files
\* a RequestFile, with what the controller holds at its path: the bytes, or
\* nothing that can be read
RequestFile(filename, path, bytes, readable) ==
  [filename |-> filename, path |-> path, bytes |-> bytes, readable |-> readable]

Staged1 == RequestFile(<<"id1", "_", "a.txt">>, "/files/1", <<77, 97, 110>>, TRUE)

Staged1Lost == RequestFile(<<"id1", "_", "a.txt">>, "/files/gone", <<>>, FALSE)

Staged2 == RequestFile(<<"id2", "_", "b.png">>, "/files/2", <<137, 80>>, TRUE)

NoFile == RequestFile(<<>>, "", <<>>, FALSE)

StagedFiles == {Staged1, Staged1Lost, Staged2}

\* ------------------------------------------------------------- JSON.parse
\* The serialized attachment lists are token sequences; an object literal is
\* one token.
JsonObjects == ("{inline1}" :> Inline1) @@ ("{file1}" :> FileRef1) @@ ("{}" :> OtherObject)

RECURSIVE parseElements(_)
parseElements(toks) ==
  CASE toks = <<>> -> [ok |-> FALSE, items |-> <<>>]
    [] toks[1] \notin DOMAIN JsonObjects -> [ok |-> FALSE, items |-> <<>>]
    [] Len(toks) = 1 -> [ok |-> TRUE, items |-> <<JsonObjects[toks[1]]>>]
    [] toks[2] # "," -> [ok |-> FALSE, items |-> <<>>]
    [] OTHER ->
         LET rest == parseElements(SubSeq(toks, 3, Len(toks)))
         IN  [ok |-> rest.ok, items |-> <<JsonObjects[toks[1]]>> \o rest.items]

\* JSON.parse(text): ok is FALSE where it throws SyntaxError
JSONparse(text) ==
  CASE text = <<"[", "]">> -> [ok |-> TRUE, value |-> Arr(<<>>)]
    [] Len(text) > 2 /\ text[1] = "[" /\ text[Len(text)] = "]" ->
         LET r == parseElements(SubSeq(text, 2, Len(text) - 1))
         IN  [ok |-> r.ok, value |-> Arr(r.items)]
    [] Len(text) = 1 /\ text[1] \in DOMAIN JsonObjects ->
         [ok |-> TRUE, value |-> JsonObjects[text[1]]]
    [] OTHER -> [ok |-> FALSE, value |-> Undefined]

\* ------------------------------------------------------------------- state
Invocations == {1, 2}

VARIABLES
  pc,                      \* where each execute invocation stands
  actionConfiguration,     \* its action configuration (formEmailJson rewrites emailAttachments)
  datasourceConfiguration, \* its datasource configuration
  files,                   \* its staged-file list, or Undefined
  tasks,                   \* the promises of the attachment map, in descriptor order
  msg,                     \* what formEmailJson returned, or Undefined
  sendCalls,               \* the client.send calls it made: payload and the key in force
  thrown,                  \* the error execute rejected with, or NoError
  output,                  \* ExecutionOutput.output, or Undefined
  response,                \* what client.send resolved with, or Undefined
  steps,                   \* the steps of execute that completed, in order
  settled,                 \* the descriptor indices in the order their reads settled
  sgApiKey,                \* the key held by the process-wide sgMail client
  emailsString,            \* argument of a direct parseEmailAddresses call
  parsed                   \* its result: [done, value]

vars ==
  <<pc, actionConfiguration, datasourceConfiguration, files, tasks, msg, sendCalls,
    thrown, output, response, steps, settled, sgApiKey, emailsString, parsed>>

execVars ==
  <<pc, actionConfiguration, datasourceConfiguration, files, tasks, msg, sendCalls,
    thrown, output, response, steps, settled, sgApiKey>>

\* ---------------------------------------------------------------- defaults
EMAIL_INTEGRATION_SENDER_ADDRESS_DEFAULT == Str(<<"app@superblockshq.com">>)

EMAIL_INTEGRATION_SENDER_NAME_DEFAULT == Str(<<"Superblocks">>)

\* ------------------------------------------------------------ formEmailJson
NoAttachment == [filename |-> Undefined, content |-> <<>>, type |-> Undefined]

Pending(match) == [st |-> "pending", att |-> NoAttachment, error |-> NoError, match |-> match]

Fulfilled(att) == [st |-> "fulfilled", att |-> att, error |-> NoError, match |-> NoFile]

Rejected(error) == [st |-> "rejected", att |-> NoAttachment, error |-> error, match |-> NoFile]

\* (files as Array<RequestFile>).find(f => f.filename.startsWith(`${id}_`)):
\* the index of the first match, 0 for none; files is an array here
findMatch(stagedList, file) ==
  LET hits == {k \in 1..Len(stagedList) :
                 startsWith(stagedList[k].filename, file.superblocksId.s \o <<"_">>)}
  IN  IF hits = {} THEN 0 ELSE Least(hits)

\* The map callback of lines 94-121 up to its first await: the promise it
\* returns is fulfilled, rejected, or pending on getEncodedFile.
startTask(file, staged) ==
  IF ~isReadableFile(file)
    THEN IF isReadableFileConstructor(file)
           THEN Fulfilled([filename |-> file.name, content |-> base64(file.contents.s),
                           type |-> file.type])
           ELSE Rejected(IntegrationError(<<"Cannot read attachments. Attachments can either be Superblocks files or { name: string; contents: string, type: string }.">>))
    ELSE IF staged.t # "array"
           THEN Rejected(TypeError(<<"Cannot read properties of undefined (reading 'find')">>))
           ELSE IF findMatch(staged.items, file) = 0
                  THEN Rejected(IntegrationError(<<"Could not locate contents for attachment file ">> \o file.name.s))
                  ELSE Pending(staged.items[findMatch(staged.items, file)])

\* The rest of the callback, when getEncodedFile(context, match.path, 'base64')
\* settles.
finishTask(file, match) ==
  IF match.readable
    THEN Fulfilled([filename |-> file.name, content |-> base64(match.bytes), type |-> file.type])
    ELSE Rejected(IntegrationError(<<"Could not retrieve file ">> \o file.name.s \o <<" from controller.">>))

\* lines 125-133
buildMessage(actionCfg, attachments) ==
  [from |-> actionCfg.emailFrom,
   to |-> parseEmailAddresses(actionCfg.emailTo),
   cc |-> parseEmailAddresses(actionCfg.emailCc),
   bcc |-> parseEmailAddresses(actionCfg.emailBcc),
   subject |-> actionCfg.emailSubject,
   html |-> actionCfg.emailBody,
   attachments |-> attachments]

\* the values of the promises, last promise first
valuesOfReversed(ts) == [k \in 1..Len(ts) |-> ts[Len(ts) + 1 - k].att]

\* the values of the fulfilled promises, in the order of the promises
valuesOf(ts) == [k \in 1..Len(ts) |-> ts[k].att]

\* Promise.all's value once every promise is fulfilled
allValues(ts) == Arr(valuesOf(ts))

\* lines 80-91: the attachment value after the optional JSON.parse, and the
\* error thrown before any descriptor is looked at
parsedAttachments(v) ==
  IF v.t = "string" /\ JSONparse(v.s).ok THEN JSONparse(v.s).value ELSE v

attachmentsError(v) ==
  IF Falsy(v)
    THEN NoError
    ELSE IF v.t = "string" /\ ~JSONparse(v.s).ok
           THEN IntegrationError(<<"Can't parse the file objects. They must be an array of JSON objects.">>)
           ELSE IF parsedAttachments(v).t # "array"
                  THEN IntegrationError(<<"Attachments must be provided in the form of an array of JSON objects.">>)
                  ELSE NoError

\* ------------------------------------------------------------ createClient
\* a factory that assigns the key before it checks it
createClientSetFirst(dsCfg, current) ==
  LET key == Coalesce(dsCfg.apiKey, Str(<<>>))
  IN  IF isEmpty(key)
        THEN [error |-> NotFoundError(<<"No API key found for Email integration">>), apiKey |-> key]
        ELSE [error |-> NoError, apiKey |-> key]

\* a factory that configures the shared client only the first time
createClientOnce(dsCfg, current) ==
  LET key == Coalesce(dsCfg.apiKey, Str(<<>>))
  IN  IF isEmpty(key)
        THEN [error |-> NotFoundError(<<"No API key found for Email integration">>), apiKey |-> current]
        ELSE [error |-> NoError, apiKey |-> IF current.t = "undefined" THEN key ELSE current]

\* lines 60-68: the error thrown (or NoError) and the key sgMail holds after
\* the call, given the key it held before
createClient(dsCfg, current) ==
  LET key == Coalesce(dsCfg.apiKey, Str(<<>>))
  IN  IF isEmpty(key)
        THEN [error |-> NotFoundError(<<"No API key found for Email integration">>), apiKey |-> current]
        ELSE [error |-> NoError, apiKey |-> key]

\* ------------------------------------------------------------------ execute
\* a sender taken from the action configuration when it has one
senderFromAction(dsCfg, m) ==
  [email |-> Coalesce(m.from, EMAIL_INTEGRATION_SENDER_ADDRESS_DEFAULT),
   name |-> Coalesce(dsCfg.senderName, EMAIL_INTEGRATION_SENDER_NAME_DEFAULT)]

\* lines 47-50: the from object of the payload
sender(dsCfg, m) ==
  [email |-> Coalesce(dsCfg.senderEmail, EMAIL_INTEGRATION_SENDER_ADDRESS_DEFAULT),
   name |-> Coalesce(dsCfg.senderName, EMAIL_INTEGRATION_SENDER_NAME_DEFAULT)]

\* lines 45-51: { ...msg, from: {...} }
payloadOf(m, dsCfg) == [m EXCEPT !.from = sender(dsCfg, m)]

\* an output that hands back the vendor's answer
executionOutputVendor(m, vendorResponse) == vendorResponse

\* lines 52-54: ret.output = msg
executionOutput(m, vendorResponse) == m

\* line 56
sendFailure(err) ==
  IntegrationError(<<"Failed to send email using SendGrid.\n\nError:\n">> \o errToString(err))

\* what the vendor's send settles with
VendorOutcomes ==
  { [ok |-> TRUE, value |-> Num(202), error |-> NoError],
    [ok |-> TRUE, value |-> Num(200), error |-> NoError],
    [ok |-> FALSE, value |-> Undefined, error |-> [name |-> "Error", message |-> <<"Unauthorized">>]],
    [ok |-> FALSE, value |-> Undefined, error |-> [name |-> "Error", message |-> <<"Bad Request">>]] }

\* The promises of the map (lines 93-122) when the callbacks have run to their
\* first await.
startTasks(items, staged) == [k \in 1..Len(items) |-> startTask(items[k], staged)]

\* a combinator that never looks at rejections (Promise.allSettled)
rejectedNone(ts) == {}

\* Promise.all rejects with the first of these
rejectedIn(ts) == {k \in 1..Len(ts) : ts[k].st = "rejected"}

pendingIn(ts) == {k \in 1..Len(ts) : ts[k].st = "pending"}

\* execute from its call to its first suspension (lines 32-40, 74-122): the
\* fields this invocation holds afterwards
begin(actionCfg, staged) ==
  LET att == actionCfg.emailAttachments
      cfgParsed == [actionCfg EXCEPT !.emailAttachments = parsedAttachments(att)]
      ts == startTasks(cfgParsed.emailAttachments.items, staged)
  IN  IF validate(actionCfg) # NoError
        THEN [pc |-> "failed", cfg |-> actionCfg, tasks |-> <<>>, msg |-> Undefined,
              thrown |-> validate(actionCfg), steps |-> <<>>]
        ELSE IF Falsy(att)
        THEN [pc |-> "built", cfg |-> actionCfg, tasks |-> <<>>,
              msg |-> buildMessage(actionCfg, Undefined),
              thrown |-> NoError, steps |-> <<"validate", "formEmailJson">>]
        ELSE IF attachmentsError(att) # NoError
        THEN [pc |-> "failed", cfg |-> cfgParsed, tasks |-> <<>>, msg |-> Undefined,
              thrown |-> attachmentsError(att), steps |-> <<"validate">>]
        ELSE IF rejectedIn(ts) # {}
        THEN [pc |-> "failed", cfg |-> cfgParsed, tasks |-> ts, msg |-> Undefined,
              thrown |-> ts[Least(rejectedIn(ts))].error, steps |-> <<"validate">>]
        ELSE IF pendingIn(ts) # {}
        THEN [pc |-> "resolving", cfg |-> cfgParsed, tasks |-> ts, msg |-> Undefined,
              thrown |-> NoError, steps |-> <<"validate">>]
        ELSE [pc |-> "built", cfg |-> cfgParsed, tasks |-> ts,
              msg |-> buildMessage(cfgParsed, allValues(ts)),
              thrown |-> NoError, steps |-> <<"validate", "formEmailJson">>]

\* The host calls execute(datasourceConfiguration, actionConfiguration, files).
Execute(i, actionCfg, dsCfg, staged) ==
  /\ pc[i] = "idle"
  /\ LET r == begin(actionCfg, staged)
     IN  /\ pc' = [pc EXCEPT ![i] = r.pc]
         /\ actionConfiguration' = [actionConfiguration EXCEPT ![i] = r.cfg]
         /\ tasks' = [tasks EXCEPT ![i] = r.tasks]
         /\ msg' = [msg EXCEPT ![i] = r.msg]
         /\ thrown' = [thrown EXCEPT ![i] = r.thrown]
         /\ steps' = [steps EXCEPT ![i] = r.steps]
  /\ datasourceConfiguration' = [datasourceConfiguration EXCEPT ![i] = dsCfg]
  /\ files' = [files EXCEPT ![i] = staged]
  /\ UNCHANGED <<sendCalls, output, response, settled, sgApiKey, emailsString, parsed>>

\* getEncodedFile of descriptor k settles; the callback finishes and
\* Promise.all, formEmailJson and the await of line 40 follow.
ReadComplete(i, k) ==
  /\ k \in pendingIn(tasks[i])
  /\ LET file == actionConfiguration[i].emailAttachments.items[k]
         t == finishTask(file, tasks[i][k].match)
         ts == [tasks[i] EXCEPT ![k] = t]
     IN  /\ tasks' = [tasks EXCEPT ![i] = ts]
         /\ settled' = [settled EXCEPT ![i] = @ \o <<k>>]
         /\ CASE pc[i] = "resolving" /\ t.st = "rejected" ->
                   /\ pc' = [pc EXCEPT ![i] = "failed"]
                   /\ thrown' = [thrown EXCEPT ![i] = t.error]
                   /\ UNCHANGED <<msg, steps>>
              [] pc[i] = "resolving" /\ t.st # "rejected" /\ pendingIn(ts) = {} ->
                   /\ pc' = [pc EXCEPT ![i] = "built"]
                   /\ msg' = [msg EXCEPT ![i] = buildMessage(actionConfiguration[i], allValues(ts))]
                   /\ steps' = [steps EXCEPT ![i] = @ \o <<"formEmailJson">>]
                   /\ UNCHANGED thrown
              [] OTHER -> UNCHANGED <<pc, msg, thrown, steps>>
  /\ UNCHANGED <<actionConfiguration, datasourceConfiguration, files, sendCalls, output,
                 response, sgApiKey, emailsString, parsed>>

\* Lines 42-51 run without suspension: createClient, then the call of
\* client.send, which builds its request with the key sgMail holds.
CreateClientAndSend(i) ==
  /\ pc[i] = "built"
  /\ LET c == createClient(datasourceConfiguration[i], sgApiKey)
     IN  /\ sgApiKey' = c.apiKey
         /\ IF c.error # NoError
              THEN /\ pc' = [pc EXCEPT ![i] = "failed"]
                   /\ thrown' = [thrown EXCEPT ![i] = sendFailure(c.error)]
                   /\ UNCHANGED <<sendCalls, steps>>
              ELSE /\ pc' = [pc EXCEPT ![i] = "sending"]
                   /\ sendCalls' = [sendCalls EXCEPT ![i] =
                        @ \o <<[payload |-> payloadOf(msg[i], datasourceConfiguration[i]),
                                 auth |-> c.apiKey]>>]
                   /\ steps' = [steps EXCEPT ![i] = @ \o <<"createClient", "send">>]
                   /\ UNCHANGED thrown
  /\ UNCHANGED <<actionConfiguration, datasourceConfiguration, files, tasks, msg, output,
                 response, settled, emailsString, parsed>>

\* The vendor's send settles: lines 52-54 on success, line 56 on failure.
SendComplete(i) ==
  /\ pc[i] = "sending"
  /\ \E r \in VendorOutcomes :
       IF r.ok
         THEN /\ pc' = [pc EXCEPT ![i] = "done"]
              /\ response' = [response EXCEPT ![i] = r.value]
              /\ output' = [output EXCEPT ![i] = executionOutput(msg[i], r.value)]
              /\ UNCHANGED thrown
         ELSE /\ pc' = [pc EXCEPT ![i] = "failed"]
              /\ thrown' = [thrown EXCEPT ![i] = sendFailure(r.error)]
              /\ UNCHANGED <<response, output>>
  /\ UNCHANGED <<actionConfiguration, datasourceConfiguration, files, tasks, msg, sendCalls,
                 steps, settled, sgApiKey, emailsString, parsed>>

\* A direct call of parseEmailAddresses.
Parse ==
  /\ ~parsed.done
  /\ parsed' = [done |-> TRUE, value |-> parseEmailAddresses(emailsString)]
  /\ UNCHANGED <<execVars, emailsString>>

\* ------------------------------------------------------------------ inputs
Address == Str(<<"m", "e", "@", "x">>)

\* the text fields of the action configurations the host passes
TextConfigs ==
  LET ok == [emailFrom |-> Address, emailTo |-> Str(<<"a", ",", " ", "b">>),
             emailCc |-> Str(<<" ", "c", ",", ",">>), emailBcc |-> Undefined,
             emailSubject |-> Str(<<"Hi">>), emailBody |-> Str(<<"<p>hello</p>">>)]
  IN  { ok,
        [ok EXCEPT !.emailFrom = Undefined],
        [ok EXCEPT !.emailFrom = Str(<<>>), !.emailBody = Undefined],
        [ok EXCEPT !.emailTo = Str(<<>>), !.emailSubject = Num(0)],
        [ok EXCEPT !.emailSubject = Num(0)] }

\* the values of emailAttachments
AttachmentValues ==
  {Undefined, Str(<<>>), Str(<<"not json">>), Str(<<"{}">>), Num(5),
   Str(<<"[", "{inline1}", ",", "{file1}", "]">>)}
    \cup {Arr(items) : items \in SeqsUpTo(Descriptors, MaxAttachments)}

ActionConfigs ==
  {[emailFrom |-> c.emailFrom, emailTo |-> c.emailTo, emailCc |-> c.emailCc,
    emailBcc |-> c.emailBcc, emailSubject |-> c.emailSubject, emailBody |-> c.emailBody,
    emailAttachments |-> a] : c \in TextConfigs, a \in AttachmentValues}

\* datasourceConfiguration.authentication?.custom, its three ?.value reads
DatasourceConfigs ==
  {[apiKey |-> k, senderEmail |-> s[1], senderName |-> s[2]] :
     k \in {Undefined, Str(<<>>), Str(<<"SG.key1">>)},
     s \in {<<Undefined, Str(<<"Ops">>)>>, <<Str(<<"ops@x">>), Undefined>>,
            <<Str(<<>>), Str(<<>>)>>}}

FileLists == {Undefined} \cup {Arr(fs) : fs \in SeqsUpTo(StagedFiles, MaxFiles)}

\* two invocations that differ in their API key
ConcurrentConfigs(i) ==
  {[apiKey |-> Str(<<"SG.key", i>>), senderEmail |-> Undefined, senderName |-> Undefined]}

ConcurrentActions ==
  {c \in ActionConfigs :
     /\ validate(c) = NoError
     /\ c.emailAttachments \in {Undefined, Arr(<<FileRef1>>)}}

\* ----------------------------------------------------------- specifications
NoConfig ==
  [emailFrom |-> Undefined, emailTo |-> Undefined, emailCc |-> Undefined,
   emailBcc |-> Undefined, emailSubject |-> Undefined, emailBody |-> Undefined,
   emailAttachments |-> Undefined]

NoDatasource == [apiKey |-> Undefined, senderEmail |-> Undefined, senderName |-> Undefined]

\* The plugin is constructed; nothing was called and sgMail has no key.
InitExec ==
  /\ pc = [i \in Invocations |-> "idle"]
  /\ actionConfiguration = [i \in Invocations |-> NoConfig]
  /\ datasourceConfiguration = [i \in Invocations |-> NoDatasource]
  /\ files = [i \in Invocations |-> Undefined]
  /\ tasks = [i \in Invocations |-> <<>>]
  /\ msg = [i \in Invocations |-> Undefined]
  /\ sendCalls = [i \in Invocations |-> <<>>]
  /\ thrown = [i \in Invocations |-> NoError]
  /\ output = [i \in Invocations |-> Undefined]
  /\ response = [i \in Invocations |-> Undefined]
  /\ steps = [i \in Invocations |-> <<>>]
  /\ settled = [i \in Invocations |-> <<>>]
  /\ sgApiKey = Undefined

Init ==
  /\ InitExec
  /\ emailsString = Undefined
  /\ parsed = [done |-> FALSE, value |-> <<>>]

\* the host calls execute once, with any input
Call(i) ==
  /\ pc[i] = "idle"
  /\ \E a \in ActionConfigs, d \in DatasourceConfigs, f \in FileLists : Execute(i, a, d, f)

\* the host calls execute for a valid action under invocation i's own key
CallConcurrent(i) ==
  /\ pc[i] = "idle"
  /\ \E a \in ConcurrentActions, d \in ConcurrentConfigs(i) : Execute(i, a, d, Arr(<<Staged1>>))

\* one invocation, every input
Next ==
  \/ Call(1)
  \/ \E k \in 1..(MaxAttachments + 1) : ReadComplete(1, k)
  \/ CreateClientAndSend(1)
  \/ SendComplete(1)

Spec == Init /\ [][Next]_vars

\* two invocations in flight at once, each with its own key
NextConcurrent ==
  \E i \in Invocations :
    \/ CallConcurrent(i)
    \/ \E k \in 1..(MaxAttachments + 1) : ReadComplete(i, k)
    \/ CreateClientAndSend(i)
    \/ SendComplete(i)

SpecConcurrent == Init /\ [][NextConcurrent]_vars

\* direct calls of parseEmailAddresses
ParseInputs ==
  {Undefined} \cup {Str(s) : s \in SeqsUpTo({"a", "b", " ", ","}, MaxLen)}

InitParse ==
  /\ InitExec
  /\ emailsString \in ParseInputs
  /\ parsed = [done |-> FALSE, value |-> <<>>]

NextParse == Parse

SpecParse == InitParse /\ [][NextParse]_vars

\* ------------------------------------------------------------------- claims
\* C1: when a required field of the schema is empty, execute fails with
\* "<label> not specified" for the first such field in schema order, and in
\* that invocation no attachment was looked at or read, sgMail got no key
\* and client.send was not called.
C1_FirstMissingFieldNamed ==
  \A i \in Invocations :
    (pc[i] # "idle" /\ \E k \in 1..Len(EmailActionFieldsMap) :
        EmailActionFieldsMap[k].required /\ Falsy(actionConfiguration[i][EmailActionFieldsMap[k].name]))
    => /\ pc[i] = "failed"
       /\ \E k \in 1..Len(EmailActionFieldsMap) :
            /\ EmailActionFieldsMap[k].required
            /\ Falsy(actionConfiguration[i][EmailActionFieldsMap[k].name])
            /\ \A j \in 1..(k - 1) :
                 EmailActionFieldsMap[j].required
                   => ~Falsy(actionConfiguration[i][EmailActionFieldsMap[j].name])
            /\ thrown[i] = IntegrationError(EmailActionFieldsMap[k].label \o <<" not specified">>)
       /\ tasks[i] = <<>>
       /\ settled[i] = <<>>
       /\ sgApiKey = Undefined
       /\ sendCalls[i] = <<>>

\* two required fields are empty, a key is configured and a staged
\* attachment is waiting
C1_Witness ==
  /\ pc[1] = "failed"
  /\ Falsy(actionConfiguration[1].emailTo)
  /\ Falsy(actionConfiguration[1].emailSubject)
  /\ actionConfiguration[1].emailAttachments = Arr(<<FileRef1>>)
  /\ files[1] = Arr(<<Staged1>>)
  /\ datasourceConfiguration[1].apiKey = Str(<<"SG.key1">>)

\* C2: client.send is called at most once per execute, and only after
\* validation passed, every descriptor resolved and createClient succeeded,
\* in that order; a failed invocation stays failed and sends nothing more.
C2_SendOnceAfterAllSteps ==
  /\ [](\A i \in Invocations :
          /\ Len(sendCalls[i]) <= 1
          /\ sendCalls[i] # <<>> =>
               /\ steps[i] = <<"validate", "formEmailJson", "createClient", "send">>
               /\ MissingRequired(actionConfiguration[i]) = {}
               /\ \A k \in 1..Len(tasks[i]) : tasks[i][k].st = "fulfilled"
               /\ ~isEmpty(Coalesce(datasourceConfiguration[i].apiKey, Str(<<>>)))
          /\ (pc[i] = "failed" /\ steps[i] # <<"validate", "formEmailJson", "createClient", "send">>)
               => sendCalls[i] = <<>>)
  /\ [][\A i \in Invocations :
          pc[i] = "failed" => (pc'[i] = "failed" /\ sendCalls'[i] = sendCalls[i]
                                 /\ thrown'[i] = thrown[i])]_vars

\* the send itself failed, after two attachments were resolved: one call
C2_Witness ==
  /\ pc[1] = "failed"
  /\ Len(sendCalls[1]) = 1
  /\ Len(tasks[1]) = 2
  /\ Len(settled[1]) = 2

\* C3: whatever step fails, execute rejects with an IntegrationError with a
\* message, and a send failure's message holds the underlying message; no
\* other error type escapes.
C3_OnlyIntegrationErrors ==
  \A i \in Invocations :
    pc[i] = "failed"
    => /\ thrown[i].name = "IntegrationError"
       /\ thrown[i].message # <<>>
       /\ sendCalls[i] # <<>>
            => \E r \in VendorOutcomes : ~r.ok /\ Contains(thrown[i].message, r.error.message)

\* C4 as stated: the output is the built message and the same object is the
\* payload given to client.send.
C4_OutputIsPayload ==
  \A i \in Invocations :
    pc[i] = "done"
    => /\ output[i] = msg[i]
       /\ sendCalls[i][1].payload = output[i]

\* the attachments formEmailJson returns for a settled invocation
builtAttachments(i) ==
  IF Falsy(actionConfiguration[i].emailAttachments)
    THEN Undefined
    ELSE Arr([k \in 1..Len(tasks[i]) |-> tasks[i][k].att])

\* C4 amended: the output is the message formEmailJson built, whatever the
\* vendor answered; the payload given to client.send is that message with
\* only its from replaced by the sender identity.
C4_OutputIsBuiltMessage ==
  \A i \in Invocations :
    pc[i] = "done"
    => /\ output[i] = [from |-> actionConfiguration[i].emailFrom,
                       to |-> parseEmailAddresses(actionConfiguration[i].emailTo),
                       cc |-> parseEmailAddresses(actionConfiguration[i].emailCc),
                       bcc |-> parseEmailAddresses(actionConfiguration[i].emailBcc),
                       subject |-> actionConfiguration[i].emailSubject,
                       html |-> actionConfiguration[i].emailBody,
                       attachments |-> builtAttachments(i)]
       /\ output[i] # response[i]
       /\ \A f \in {"to", "cc", "bcc", "subject", "html", "attachments"} :
            sendCalls[i][1].payload[f] = output[i][f]
       /\ sendCalls[i][1].payload.from
            = [email |-> Coalesce(datasourceConfiguration[i].senderEmail,
                                  EMAIL_INTEGRATION_SENDER_ADDRESS_DEFAULT),
               name |-> Coalesce(datasourceConfiguration[i].senderName,
                                 EMAIL_INTEGRATION_SENDER_NAME_DEFAULT)]

\* a send with two resolved attachments succeeded
C4_Witness ==
  /\ pc[1] = "done"
  /\ response[1] = Num(200)
  /\ output[1].attachments.t = "array"
  /\ Len(output[1].attachments.items) = 2

firstMatch(i, k) ==
  LET file == actionConfiguration[i].emailAttachments.items[k]
      hits == {n \in 1..Len(files[i].items) :
                 startsWith(files[i].items[n].filename, file.superblocksId.s \o <<"_">>)}
  IN  files[i].items[CHOOSE n \in hits : \A m \in hits : n <= m]

\* the attachment descriptor k of invocation i resolves to
resolutionOf(i, k) ==
  LET file == actionConfiguration[i].emailAttachments.items[k]
  IN  [filename |-> file.name,
       content |-> IF file.superblocksId.t = "string"
                     THEN base64(firstMatch(i, k).bytes)
                     ELSE base64(file.contents.s),
       type |-> file.type]

\* C6: reads may settle in any order; a message that is built carries
\* exactly one attachment per descriptor, the k-th being the resolution of
\* the k-th descriptor; if any resolution fails no message is built and
\* nothing is sent.
C6_AttachmentsInDescriptorOrder ==
  \A i \in Invocations :
    /\ (msg[i] # Undefined /\ msg[i].attachments # Undefined)
         => /\ Len(msg[i].attachments.items) = Len(actionConfiguration[i].emailAttachments.items)
            /\ \A k \in 1..Len(msg[i].attachments.items) :
                 msg[i].attachments.items[k] = resolutionOf(i, k)
    /\ (\E k \in 1..Len(tasks[i]) : tasks[i][k].st = "rejected")
         => /\ pc[i] = "failed"
            /\ msg[i] = Undefined
            /\ sendCalls[i] = <<>>

\* two host files were read, the second settled first
C6_Witness ==
  /\ pc[1] = "built"
  /\ settled[1] = <<2, 1>>
  /\ actionConfiguration[1].emailAttachments = Arr(<<FileRef1, FileRef2>>)
  /\ msg[1].attachments.items[1].filename = Str(<<"a.txt">>)
  /\ msg[1].attachments.items[2].filename = Str(<<"b.png">>)

\* C7: a host-file descriptor with no matching staged file (the list empty
\* or not supplied included) fails with the not-found error naming it; a
\* matched file that cannot be read fails with the retrieval error naming
\* it; otherwise the attachment is the base64 of the matched file under the
\* descriptor's name and type.
C7_HostFileResolution ==
  \A i \in Invocations :
    \A k \in 1..Len(tasks[i]) :
      LET file == actionConfiguration[i].emailAttachments.items[k]
          matched == /\ files[i].t = "array"
                     /\ \E n \in 1..Len(files[i].items) :
                          startsWith(files[i].items[n].filename, file.superblocksId.s \o <<"_">>)
      IN  isReadableFile(file)
            => /\ ~matched
                 => /\ tasks[i][k].st = "rejected"
                    /\ tasks[i][k].error.name = "IntegrationError"
                    /\ tasks[i][k].error.message
                         = <<"Could not locate contents for attachment file ">> \o file.name.s
               /\ (matched /\ tasks[i][k].st = "rejected")
                 => /\ ~firstMatch(i, k).readable
                    /\ tasks[i][k].error
                         = IntegrationError(<<"Could not retrieve file ">> \o file.name.s
                                              \o <<" from controller.">>)
               /\ tasks[i][k].st = "fulfilled" => tasks[i][k].att = resolutionOf(i, k)

\* C8 as stated: without an API key the error execute surfaces is the
\* factory's not-found error.
C8_NotFoundSurfaced ==
  \A i \in Invocations :
    (pc[i] = "failed" /\ msg[i] # Undefined
       /\ isEmpty(Coalesce(datasourceConfiguration[i].apiKey, Str(<<>>))))
    => thrown[i].name = "NotFoundError"

\* C8 amended: without an API key (absent or empty) execute fails with an
\* IntegrationError whose message holds the factory's not-found error, the
\* key of sgMail is left as it was and nothing is sent; with a key, sgMail
\* holds exactly that key once the client was created.
C8_MissingKeyWrapped ==
  \A i \in Invocations :
    /\ (pc[i] \in {"failed", "sending", "done"} /\ msg[i] # Undefined
          /\ (datasourceConfiguration[i].apiKey = Undefined
                \/ datasourceConfiguration[i].apiKey = Str(<<>>)))
         => /\ pc[i] = "failed"
            /\ thrown[i].name = "IntegrationError"
            /\ Contains(thrown[i].message,
                        <<"NotFoundError", ": ", "No API key found for Email integration">>)
            /\ sgApiKey = Undefined
            /\ sendCalls[i] = <<>>
    /\ (msg[i] # Undefined /\ pc[i] # "built"
          /\ datasourceConfiguration[i].apiKey # Undefined
          /\ datasourceConfiguration[i].apiKey # Str(<<>>))
         => /\ sgApiKey = datasourceConfiguration[i].apiKey
            /\ Len(sendCalls[i]) = 1

\* the message was built and the configured key is the empty string
C8_Witness ==
  /\ pc[1] = "failed"
  /\ msg[1] # Undefined
  /\ datasourceConfiguration[1].apiKey = Str(<<>>)
  /\ Len(tasks[1]) = 1

\* the comma positions of s, with both ends
boundaries(s) == {0, Len(s) + 1} \cup {k \in 1..Len(s) : s[k] = ","}

\* the boundary that closes the piece opened at boundary b
closing(s, b) == CHOOSE e \in boundaries(s) : e > b /\ \A x \in boundaries(s) : x > b => e <= x

\* the boundaries that open a piece with a character that is not whitespace
keptPieces(s) ==
  {b \in boundaries(s) \ {Len(s) + 1} :
     \E k \in (b + 1)..(closing(s, b) - 1) : s[k] \notin Whitespace}

\* the piece opened at b, from its first to its last non-whitespace character
core(s, b) ==
  LET ink == {k \in (b + 1)..(closing(s, b) - 1) : s[k] \notin Whitespace}
  IN  SubSeq(s, CHOOSE k \in ink : \A j \in ink : k <= j,
                CHOOSE k \in ink : \A j \in ink : j <= k)

\* C9: parseEmailAddresses returns the comma-separated pieces of its input,
\* each trimmed, the blank ones dropped, in order and with duplicates; no
\* element is empty, starts or ends with whitespace or holds a comma; an
\* absent, empty or blank input gives the empty sequence.
C9_ParseEmailAddresses ==
  parsed.done
  => LET s == IF emailsString = Undefined THEN <<>> ELSE emailsString.s
         r == parsed.value
     IN  /\ Len(r) = Cardinality(keptPieces(s))
         /\ \A b \in keptPieces(s) :
              r[Cardinality({x \in keptPieces(s) : x <= b})] = core(s, b)
         /\ \A n \in 1..Len(r) :
              /\ r[n] # <<>>
              /\ r[n][1] \notin Whitespace
              /\ r[n][Len(r[n])] \notin Whitespace
              /\ \A k \in 1..Len(r[n]) : r[n][k] # ","
         /\ (\A k \in 1..Len(s) : s[k] \in Whitespace) => r = <<>>

\* "a,, a": a blank piece is dropped, the pieces are trimmed, the duplicate kept
C9_Witness ==
  /\ parsed.done
  /\ emailsString = Str(<<"a", ",", ",", " ", "a">>)
  /\ parsed.value = << <<"a">>, <<"a">> >>

\* C10 as stated: the sender name and address of the payload are the
\* datasource override when one is configured and the default when it is
\* absent or empty.
C10_EmptyOverrideFallsBack ==
  \A i \in Invocations :
    \A n \in 1..Len(sendCalls[i]) :
      /\ sendCalls[i][n].payload.from.email
           = IF datasourceConfiguration[i].senderEmail = Undefined
                  \/ datasourceConfiguration[i].senderEmail = Str(<<>>)
               THEN EMAIL_INTEGRATION_SENDER_ADDRESS_DEFAULT
               ELSE datasourceConfiguration[i].senderEmail
      /\ sendCalls[i][n].payload.from.name
           = IF datasourceConfiguration[i].senderName = Undefined
                  \/ datasourceConfiguration[i].senderName = Str(<<>>)
               THEN EMAIL_INTEGRATION_SENDER_NAME_DEFAULT
               ELSE datasourceConfiguration[i].senderName

\* C10 amended: the sender name and address of the payload are each the
\* datasource override when one is present, the empty string included, and
\* the default only when it is absent; emailFrom never reaches the payload.
C10_SenderFromDatasource ==
  \A i \in Invocations :
    \A n \in 1..Len(sendCalls[i]) :
      /\ sendCalls[i][n].payload.from.email
           = IF datasourceConfiguration[i].senderEmail = Undefined
               THEN EMAIL_INTEGRATION_SENDER_ADDRESS_DEFAULT
               ELSE datasourceConfiguration[i].senderEmail
      /\ sendCalls[i][n].payload.from.name
           = IF datasourceConfiguration[i].senderName = Undefined
               THEN EMAIL_INTEGRATION_SENDER_NAME_DEFAULT
               ELSE datasourceConfiguration[i].senderName
      /\ sendCalls[i][n].payload.from.email # actionConfiguration[i].emailFrom

\* a message was sent under an empty sender override
C10_Witness ==
  /\ sendCalls[1] # <<>>
  /\ datasourceConfiguration[1].senderEmail = Str(<<>>)
  /\ sendCalls[1][1].payload.from.email = Str(<<>>)
  /\ actionConfiguration[1].emailFrom = Address

====
